---- MODULE Spec2Model ----
(***************************************************************************)
(* Model of main.py: the Jira proxy endpoint /simplified-jira-issues with  *)
(* its issue flattening loop, and the read-only audit endpoints /requests, *)
(* /classifications, /tickets and /full_log/{request_id} together with the *)
(* session-per-request dependency get_db.                                  *)
(***************************************************************************)
EXTENDS Integers, Sequences, FiniteSets, TLC

\* Longest upstream "issues" array that is enumerated.
MaxIssues == 2
\* Most rows held by classification_logs and generated_tickets together.
MaxRows == 2
\* Number of requests the server handles concurrently.
NumWorkers == 2

(***************************************************************************)
(* JSON values as Python sees them after response.json().                  *)
(***************************************************************************)
JNull == [t |-> "null"]
JStr(s) == [t |-> "str", s |-> s]
JObj(m) == [t |-> "obj", m |-> m]
JList(a) == [t |-> "list", a |-> a]
EmptyMap == [k \in {} |-> JNull]
EmptyDict == JObj(EmptyMap)

\* An object literal: the keys bound to Absent are left out of the dict.
Absent == [t |-> "absent"]
MkObj(f) == JObj([k \in {x \in DOMAIN f : f[x] # Absent} |-> f[k]])

IsDict(v) == v.t = "obj"
\* dict.get(k, default)
Get(d, k, default) == IF k \in DOMAIN d.m THEN d.m[k] ELSE default
\* Python truth value of a JSON value
Truthy(v) ==
    CASE v.t = "null" -> FALSE
      [] v.t = "str" -> v.s # ""
      [] v.t = "obj" -> DOMAIN v.m # {}
      [] v.t = "list" -> Len(v.a) > 0

\* str(e) of the AttributeError raised by v.get(...) on a value that is no dict
AttributeErrorMsg(v) ==
    CASE v.t = "null" -> "'NoneType' object has no attribute 'get'"
      [] v.t = "str" -> "'str' object has no attribute 'get'"
      [] v.t = "list" -> "'list' object has no attribute 'get'"
\* str(e) of the TypeError raised by iterating a value that is no sequence
TypeErrorMsg == "'NoneType' object is not iterable"
ConnectionErrorMsg == "Connection refused"
JSONDecodeErrorMsg == "Expecting value: line 1 column 1 (char 0)"
\* str(e) of the requests.HTTPError raised by raise_for_status()
HTTPErrorMsg(status) ==
    IF status < 500 THEN ToString(status) \o " Client Error"
    ELSE ToString(status) \o " Server Error"

Returned(v) == [raised |-> FALSE, msg |-> "", v |-> v]
Raised(msg) == [raised |-> TRUE, msg |-> msg, v |-> JNull]

\* d.get(k, default).get(k2, default2): raises when the inner value is no dict
GetGet(d, k, default, k2, default2) ==
    LET inner == Get(d, k, default)
    IN  IF IsDict(inner) THEN Returned(Get(inner, k2, default2))
        ELSE Raised(AttributeErrorMsg(inner))

\* fields.get(who, {}).get("displayName", "N/A") if fields.get(who) else "N/A"
PersonName(fields, who) ==
    IF Truthy(Get(fields, who, JNull))
    THEN GetGet(fields, who, EmptyDict, "displayName", JStr("N/A"))
    ELSE Returned(JStr("N/A"))

\* Variant: the Epic test is left out
ParentKeyAnyType(fields, issue_type) ==
    GetGet(fields, "parent", EmptyDict, "key", JNull)

\* Variant: a missing key defaults to the literal "N/A"
ParentKeyDefaultNA(fields, issue_type) ==
    IF issue_type = JStr("Epic") THEN Returned(JNull)
    ELSE GetGet(fields, "parent", EmptyDict, "key", JStr("N/A"))

\* None if issue_type == "Epic" else fields.get("parent", {}).get("key")
ParentKey(fields, issue_type) ==
    IF issue_type = JStr("Epic") THEN Returned(JNull)
    ELSE GetGet(fields, "parent", EmptyDict, "key", JNull)

NoEntry == [issue_key |-> JNull, summary |-> JNull, issue_type |-> JNull,
            parent |-> JNull, status |-> JNull, assignee |-> JNull,
            reporter |-> JNull]
EntryReturned(e) == [raised |-> FALSE, msg |-> "", v |-> e]
EntryRaised(msg) == [raised |-> TRUE, msg |-> msg, v |-> NoEntry]

\* The body of the for loop for one issue, in Python's evaluation order.
FlattenIssue(issue) ==
    IF ~IsDict(issue) THEN EntryRaised(AttributeErrorMsg(issue))
    ELSE
    LET fields == Get(issue, "fields", EmptyDict)
    IN  IF ~IsDict(fields) THEN EntryRaised(AttributeErrorMsg(fields))
        ELSE
        LET ity == GetGet(fields, "issuetype", EmptyDict, "name", JStr(""))
        IN  IF ity.raised THEN EntryRaised(ity.msg)
            ELSE
            LET par == ParentKey(fields, ity.v)
                sta == GetGet(fields, "status", EmptyDict, "name", JStr(""))
                asg == PersonName(fields, "assignee")
                rep == PersonName(fields, "reporter")
            IN  CASE par.raised -> EntryRaised(par.msg)
                  [] ~par.raised /\ sta.raised -> EntryRaised(sta.msg)
                  [] ~par.raised /\ ~sta.raised /\ asg.raised -> EntryRaised(asg.msg)
                  [] ~par.raised /\ ~sta.raised /\ ~asg.raised /\ rep.raised ->
                        EntryRaised(rep.msg)
                  [] OTHER ->
                        EntryReturned(
                          [issue_key |-> Get(issue, "key", JStr("")),
                           summary |-> Get(fields, "summary", JStr("")),
                           issue_type |-> ity.v,
                           parent |-> par.v,
                           status |-> sta.v,
                           assignee |-> asg.v,
                           reporter |-> rep.v])

TableReturned(tbl) == [raised |-> FALSE, msg |-> "", table |-> tbl]
TableRaised(msg) == [raised |-> TRUE, msg |-> msg, table |-> <<>>]

\* Variant: an issue that raises is skipped and the loop goes on
RECURSIVE FlattenLoopBestEffort(_, _, _)
FlattenLoopBestEffort(issues, i, table_data) ==
    IF i > Len(issues) THEN TableReturned(table_data)
    ELSE LET e == FlattenIssue(issues[i])
         IN  IF e.raised THEN FlattenLoopBestEffort(issues, i + 1, table_data)
             ELSE FlattenLoopBestEffort(issues, i + 1, Append(table_data, e.v))

\* Variant: table_data.insert(0, entry)
RECURSIVE FlattenLoopInsertFront(_, _, _)
FlattenLoopInsertFront(issues, i, table_data) ==
    IF i > Len(issues) THEN TableReturned(table_data)
    ELSE LET e == FlattenIssue(issues[i])
         IN  IF e.raised THEN TableRaised(e.msg)
             ELSE FlattenLoopInsertFront(issues, i + 1, <<e.v>> \o table_data)

\* for issue in issues: ... table_data.append(entry), from the i-th issue on
RECURSIVE FlattenLoop(_, _, _)
FlattenLoop(issues, i, table_data) ==
    IF i > Len(issues) THEN TableReturned(table_data)
    ELSE LET e == FlattenIssue(issues[i])
         IN  IF e.raised THEN TableRaised(e.msg)
             ELSE FlattenLoop(issues, i + 1, Append(table_data, e.v))

\* raise_for_status() raises for 4xx and 5xx only
RaisesForStatus(status) == status >= 400 /\ status < 600

\* The try block of get_simplified_issues
TryBody(up) ==
    IF up.net = "fail" THEN TableRaised(ConnectionErrorMsg)
    ELSE IF RaisesForStatus(up.status) THEN TableRaised(HTTPErrorMsg(up.status))
    ELSE IF up.body = "garbage" THEN TableRaised(JSONDecodeErrorMsg)
    ELSE IF ~IsDict(up.data) THEN TableRaised(AttributeErrorMsg(up.data))
    ELSE LET issues == Get(up.data, "issues", JList(<<>>))
         IN  IF issues.t # "list" THEN TableRaised(TypeErrorMsg)
             ELSE FlattenLoop(issues.a, 1, <<>>)

DataResponse(tbl) == [status |-> 200, kind |-> "data", detail |-> "", data |-> tbl]
HTTPException(status, detail) ==
    [status |-> status, kind |-> "detail", detail |-> detail, data |-> <<>>]

\* try: ... return {"data": table_data}  except Exception as e: raise HTTPException(500, str(e))
SimplifiedIssuesResponse(up) ==
    LET r == TryBody(up)
    IN  IF r.raised THEN HTTPException(500, r.msg)
        ELSE DataResponse(r.table)

(***************************************************************************)
(* Upstream replies enumerated for the outbound requests.get.              *)
(***************************************************************************)
Person(name) == MkObj([displayName |-> name, accountId |-> JStr("acc")])
Fields(ity, par, asg, rep) ==
    MkObj([summary |-> JStr("Fix bug"), issuetype |-> ity, parent |-> par,
           status |-> MkObj([name |-> JStr("Open")]), assignee |-> asg,
           reporter |-> rep])
IssueOf(key, fields) == MkObj([key |-> key, fields |-> fields])
TypeNamed(n) == MkObj([name |-> JStr(n)])
ParentWith(k) == MkObj([key |-> k, id |-> JStr("10000")])

IssueSamples ==
    { IssueOf(JStr("PROJ-1"), Fields(TypeNamed("Bug"), ParentWith(JStr("PROJ-0")),
                                      JNull, Person(JStr("Alice")))),
      IssueOf(JStr("PROJ-2"), Fields(TypeNamed("Epic"), ParentWith(JStr("PROJ-0")),
                                      Person(JStr("Bob")), EmptyDict)),
      IssueOf(JStr("PROJ-3"), Fields(TypeNamed("Epic"), JNull,
                                      Absent, Person(Absent))),
      IssueOf(JStr("PROJ-4"), Fields(TypeNamed("Story"), Absent, Absent, Absent)),
      IssueOf(JStr("PROJ-5"), Fields(EmptyDict, ParentWith(Absent),
                                      Person(Absent), Person(JStr("Alice")))),
      IssueOf(JStr("PROJ-6"), Fields(TypeNamed("Bug"), ParentWith(JNull),
                                      Person(JNull), Person(JStr("Bob")))),
      IssueOf(JStr("PROJ-7"), Fields(TypeNamed("Bug"), JNull,
                                      Person(JStr("Bob")), Person(JStr("Alice")))),
      JStr("PROJ-8"),
      IssueOf(JStr("PROJ-9"), Fields(TypeNamed("Task"), Absent,
                                      JStr("bob"), Person(JStr("Alice")))),
      IssueOf(Absent, Absent) }

SeqsUpTo(S, n) == UNION {[1..k -> S] : k \in 0..n}

\* Parsed bodies: no object, no "issues" key, "issues": null, an issues array.
Payloads(n) ==
    {JList(<<>>), MkObj([total |-> JStr("0")]), MkObj([issues |-> JNull])}
    \cup {MkObj([issues |-> JList(a)]) : a \in SeqsUpTo(IssueSamples, n)}

SamplePayload == MkObj([issues |-> JList(<<IssueOf(JStr("PROJ-4"),
                          Fields(TypeNamed("Story"), Absent, Absent, Absent))>>)])

Reply(net, status, body, data) ==
    [net |-> net, status |-> status, body |-> body, data |-> data]

\* What requests.get meets: a network failure, or a reply with a status and a body.
UpstreamReplies(n) ==
    {Reply("fail", 0, "none", JNull)}
    \cup {Reply("ok", s, "json", SamplePayload) : s \in {304, 401, 404, 500, 503}}
    \cup {Reply("ok", s, "garbage", JNull) : s \in {200, 304}}
    \cup {Reply("ok", 200, "json", d) : d \in Payloads(n)}

(***************************************************************************)
(* The audit store and the Audit Reader queries.                           *)
(***************************************************************************)
RequestIds == {1, 2}
\* None: no matching row
NoRow == 0
DefaultSkip == 0
DefaultLimit == 100
Workers == 1..NumWorkers

VARIABLES
    requests,         \* generation_requests: the request_id of every row
    classifications,  \* classification_logs: row log_id = i has request_id classifications[i]
    tickets,          \* generated_tickets: row ticket_log_id = i has request_id tickets[i]
    pc,               \* per worker: where its current request stands
    closes,           \* per worker: db.close() calls on its current session
    served            \* the call handled last, with its response

vars == <<requests, classifications, tickets, pc, closes, served>>
store == <<requests, classifications, tickets>>

\* All orders in which an unordered SELECT may yield the rows S
Perms(S) == {p \in [1..Cardinality(S) -> S] : \A i, j \in DOMAIN p : p[i] = p[j] => i = j}

Min(a, b) == IF a < b THEN a ELSE b
\* .offset(skip).limit(limit).all() over rows yielded in the order rows
OffsetLimit(rows, skip, limit) == SubSeq(rows, skip + 1, Min(Len(rows), skip + limit))

\* The log_id / ticket_log_id of the rows of tbl whose request_id matches
Matching(tbl, request_id) == {i \in DOMAIN tbl : tbl[i] = request_id}
\* .filter(...).first(): LIMIT 1 without ORDER BY yields any matching row, or None
FirstChoices(rowIds) == IF rowIds = {} THEN {NoRow} ELSE rowIds

InternalServerError ==
    [status |-> 500, detail |-> "Internal Server Error", rows |-> <<>>,
     request |-> NoRow, classification |-> NoRow, ticket |-> NoRow]
NotFound ==
    [status |-> 404, detail |-> "Request not found", rows |-> <<>>,
     request |-> NoRow, classification |-> NoRow, ticket |-> NoRow]
ListResponse(rows) ==
    [status |-> 200, detail |-> "", rows |-> rows,
     request |-> NoRow, classification |-> NoRow, ticket |-> NoRow]
FullLogResponse(request, classification, ticket) ==
    [status |-> 200, detail |-> "", rows |-> <<>>,
     request |-> request, classification |-> classification, ticket |-> ticket]

Faults == {"none", "query", "response"}
\* skip and limit of the listing calls: the defaults, and the second page of size one
Pages == {<<DefaultSkip, DefaultLimit>>, <<1, 1>>}
ExitOf(r) == IF r.status = 200 THEN "returned" ELSE "raised"

TypeOK ==
    /\ requests \subseteq RequestIds
    /\ classifications \in Seq(RequestIds)
    /\ tickets \in Seq(RequestIds)
    /\ pc \in [Workers -> {"none", "open", "returned", "raised", "closed"}]
    /\ closes \in [Workers -> Nat]

Stores ==
    {s \in (SUBSET RequestIds) \X SeqsUpTo(RequestIds, MaxRows) \X SeqsUpTo(RequestIds, MaxRows) :
        /\ Len(s[2]) + Len(s[3]) <= MaxRows
        /\ \A i \in DOMAIN s[2] : s[2][i] \in s[1]
        /\ \A i \in DOMAIN s[3] : s[3][i] \in s[1]}

NotServed == [ep |-> "none"]

Init ==
    /\ \E s \in Stores : requests = s[1] /\ classifications = s[2] /\ tickets = s[3]
    /\ pc = [w \in Workers |-> "none"]
    /\ closes = [w \in Workers |-> 0]
    /\ served = NotServed

\* GET /simplified-jira-issues: no session, no store access
GetSimplifiedIssues(up) ==
    /\ served' = [ep |-> "simplified-jira-issues", up |-> up,
                  resp |-> SimplifiedIssuesResponse(up)]
    /\ UNCHANGED <<requests, classifications, tickets, pc, closes>>

\* get_db up to its yield: db = SessionLocal()
Acquire(w) ==
    /\ pc[w] \in {"none", "closed"}
    /\ pc' = [pc EXCEPT ![w] = "open"]
    /\ closes' = [closes EXCEPT ![w] = 0]
    /\ UNCHANGED <<requests, classifications, tickets, served>>

\* Variant: no try/finally, db.close() runs only when the handler returned
ReleaseOnReturnOnly(w) ==
    /\ pc[w] = "returned"
    /\ pc' = [pc EXCEPT ![w] = "closed"]
    /\ closes' = [closes EXCEPT ![w] = @ + 1]
    /\ UNCHANGED <<requests, classifications, tickets, served>>

\* get_db after its yield: finally: db.close(), on return and on exception alike
Release(w) ==
    /\ pc[w] \in {"returned", "raised"}
    /\ pc' = [pc EXCEPT ![w] = "closed"]
    /\ closes' = [closes EXCEPT ![w] = @ + 1]
    /\ UNCHANGED <<requests, classifications, tickets, served>>

\* db.query(T).offset(skip).limit(limit).all() returned through response_model
ListRows(w, ep, rowIds, skip, limit, fault) ==
    /\ pc[w] = "open"
    /\ \E order \in Perms(rowIds) :
          LET r == IF fault = "none" THEN ListResponse(OffsetLimit(order, skip, limit))
                   ELSE InternalServerError
          IN  /\ served' = [ep |-> ep, skip |-> skip, limit |-> limit,
                            fault |-> fault, resp |-> r]
              /\ pc' = [pc EXCEPT ![w] = ExitOf(r)]
    /\ UNCHANGED <<requests, classifications, tickets, closes>>

GetAllRequests(w, skip, limit, fault) ==
    ListRows(w, "requests", requests, skip, limit, fault)

GetAllClassifications(w, skip, limit, fault) ==
    ListRows(w, "classifications", DOMAIN classifications, skip, limit, fault)

GetAllTickets(w, skip, limit, fault) ==
    ListRows(w, "tickets", DOMAIN tickets, skip, limit, fault)

\* Variant: 404 unless the request, a classification and a ticket all exist
GetFullLogAllRequired(w, request_id, fault) ==
    /\ pc[w] = "open"
    /\ \E request \in FirstChoices({r \in requests : r = request_id}),
          classification \in FirstChoices(Matching(classifications, request_id)),
          ticket \in FirstChoices(Matching(tickets, request_id)) :
          LET r == IF fault = "query" THEN InternalServerError
                   ELSE IF NoRow \in {request, classification, ticket} THEN NotFound
                   ELSE IF fault = "response" THEN InternalServerError
                   ELSE FullLogResponse(request, classification, ticket)
          IN  /\ served' = [ep |-> "full_log", request_id |-> request_id,
                            fault |-> fault, resp |-> r]
              /\ pc' = [pc EXCEPT ![w] = ExitOf(r)]
    /\ UNCHANGED <<requests, classifications, tickets, closes>>

\* Variant: get-or-create, an unknown request_id is inserted before the 404
GetFullLogGetOrCreate(w, request_id, fault) ==
    /\ pc[w] = "open"
    /\ \E request \in FirstChoices({r \in requests : r = request_id}),
          classification \in FirstChoices(Matching(classifications, request_id)),
          ticket \in FirstChoices(Matching(tickets, request_id)) :
          LET r == IF fault = "query" THEN InternalServerError
                   ELSE IF request = NoRow THEN NotFound
                   ELSE IF fault = "response" THEN InternalServerError
                   ELSE FullLogResponse(request, classification, ticket)
          IN  /\ served' = [ep |-> "full_log", request_id |-> request_id,
                            fault |-> fault, resp |-> r]
              /\ pc' = [pc EXCEPT ![w] = ExitOf(r)]
              /\ requests' = IF r = NotFound THEN requests \cup {request_id} ELSE requests
    /\ UNCHANGED <<classifications, tickets, closes>>

\* GET /full_log/{request_id}
GetFullLog(w, request_id, fault) ==
    /\ pc[w] = "open"
    /\ \E request \in FirstChoices({r \in requests : r = request_id}),
          classification \in FirstChoices(Matching(classifications, request_id)),
          ticket \in FirstChoices(Matching(tickets, request_id)) :
          LET r == IF fault = "query" THEN InternalServerError
                   ELSE IF request = NoRow THEN NotFound
                   ELSE IF fault = "response" THEN InternalServerError
                   ELSE FullLogResponse(request, classification, ticket)
          IN  /\ served' = [ep |-> "full_log", request_id |-> request_id,
                            fault |-> fault, resp |-> r]
              /\ pc' = [pc EXCEPT ![w] = ExitOf(r)]
    /\ UNCHANGED <<requests, classifications, tickets, closes>>

Handle(w) ==
    \/ \E page \in Pages, fault \in {"none", "query"} :
          \/ GetAllRequests(w, page[1], page[2], fault)
          \/ GetAllClassifications(w, page[1], page[2], fault)
          \/ GetAllTickets(w, page[1], page[2], fault)
    \/ \E request_id \in RequestIds, fault \in Faults : GetFullLog(w, request_id, fault)

AuditNext == \E w \in Workers : Acquire(w) \/ Handle(w) \/ Release(w)

JiraNext == \E up \in UpstreamReplies(MaxIssues) : GetSimplifiedIssues(up)

\* A network failure, an upstream 404, an unparsable body, a flattened payload
ReplySamples ==
    {Reply("fail", 0, "none", JNull), Reply("ok", 404, "json", SamplePayload),
     Reply("ok", 200, "garbage", JNull), Reply("ok", 200, "json", SamplePayload)}

Next == AuditNext \/ \E up \in ReplySamples : GetSimplifiedIssues(up)

\* Every endpoint, every worker.
Spec == Init /\ [][Next]_vars

\* The audit endpoints alone.
SpecAudit == Init /\ [][AuditNext]_vars

\* The Jira proxy alone; it reads nothing of the store.
InitJira ==
    /\ requests = {} /\ classifications = <<>> /\ tickets = <<>>
    /\ pc = [w \in Workers |-> "none"]
    /\ closes = [w \in Workers |-> 0]
    /\ served = NotServed
SpecJira == InitJira /\ [][JiraNext]_vars

\* A handler that has started runs to its return or raise, and the framework
\* then resumes the dependency generator; new requests need not arrive.
\* Fairness is checked from one store that has a known and an unknown request_id,
\* which is all the exit paths of the handlers depend on.
InitSessions ==
    /\ requests = {1} /\ classifications = <<1>> /\ tickets = <<>>
    /\ pc = [w \in Workers |-> "none"]
    /\ closes = [w \in Workers |-> 0]
    /\ served = NotServed
FairSpec ==
    /\ InitSessions /\ [][AuditNext]_vars
    /\ \A w \in Workers : WF_vars(Handle(w)) /\ WF_vars(Release(w))

(***************************************************************************)
(* Properties of the Jira proxy, stated over the call served last.         *)
(***************************************************************************)
JiraServed == served.ep = "simplified-jira-issues"
Flattened == JiraServed /\ served.resp.kind = "data"
\* The upstream reply was parsed into an object
ParsedObject(up) ==
    up.net = "ok" /\ ~RaisesForStatus(up.status) /\ up.body = "json" /\ IsDict(up.data)
\* The upstream issues array of a parsed object, [] when the key is missing
UpstreamIssues(up) ==
    IF "issues" \in DOMAIN up.data.m /\ up.data.m["issues"].t = "list"
    THEN up.data.m["issues"].a ELSE <<>>
\* x.a.b of an upstream issue: Absent when a link of the path is missing
Path2(x, a, b) ==
    IF IsDict(x) /\ a \in DOMAIN x.m /\ IsDict(x.m[a]) /\ b \in DOMAIN x.m[a].m
    THEN x.m[a].m[b] ELSE Absent
Path3(x, a, b, c) ==
    LET y == Path2(x, a, b)
    IN  IF IsDict(y) /\ c \in DOMAIN y.m THEN y.m[c] ELSE Absent
\* An issue the loop cannot flatten: no object, a null parent on a non-Epic,
\* or an assignee that is a non-empty string
Unflattenable(x) ==
    \/ ~IsDict(x)
    \/ Path2(x, "fields", "parent") = JNull /\ Path3(x, "fields", "issuetype", "name") # JStr("Epic")
    \/ Path2(x, "fields", "assignee").t = "str" /\ Path2(x, "fields", "assignee") # JStr("")

\* C1: whenever the upstream replies with a non-success status S, the response
\* has status S and the fixed detail "Failed to fetch data from Jira", and
\* carries no flattened data.
C1_UpstreamStatusForwarded ==
    (JiraServed /\ served.up.net = "ok" /\ served.up.status \notin 200..299) =>
        /\ served.resp.status = served.up.status
        /\ served.resp.kind = "detail"
        /\ served.resp.detail = "Failed to fetch data from Jira"
        /\ served.resp.data = <<>>

\* C2: every exception of the flow (network failure, parse failure, a failure
\* at the k-th issue after earlier issues were flattened) ends in status 500
\* with the exception's message as detail; the response is either the list
\* covering every input issue or an error without entries, never a partial list.
C2_AllOrNothing ==
    JiraServed =>
        LET up == served.up
            r == served.resp
        IN  /\ r.kind \in {"data", "detail"}
            /\ r.kind = "detail" => r.status = 500 /\ r.data = <<>>
            /\ r.kind = "data" =>
                  /\ r.status = 200 /\ ParsedObject(up)
                  /\ Len(r.data) = Len(UpstreamIssues(up))
                  /\ \A k \in DOMAIN UpstreamIssues(up) : ~Unflattenable(UpstreamIssues(up)[k])
            /\ up.net = "fail" => r.kind = "detail" /\ r.detail = ConnectionErrorMsg
            /\ (up.net = "ok" /\ up.status \in 200..399 /\ up.body = "garbage") =>
                  r.kind = "detail" /\ r.detail = JSONDecodeErrorMsg
            /\ (ParsedObject(up) /\ \E k \in DOMAIN UpstreamIssues(up) :
                                        Unflattenable(UpstreamIssues(up)[k])) =>
                  /\ r.kind = "detail" /\ r.status = 500
                  /\ r.detail \in {AttributeErrorMsg(JNull), AttributeErrorMsg(JStr(""))}

\* C2 witness: the second issue fails after the first one was flattened
C2_Witness ==
    /\ JiraServed /\ ParsedObject(served.up)
    /\ Len(UpstreamIssues(served.up)) = 2
    /\ ~Unflattenable(UpstreamIssues(served.up)[1])
    /\ Unflattenable(UpstreamIssues(served.up)[2])
    /\ served.resp.status = 500 /\ served.resp.data = <<>>

\* C3: in every flattened payload an entry whose issue_type is "Epic" has the
\* absent marker as parent, whatever fields.parent.key the upstream issue has.
C3_EpicHasNoParent ==
    Flattened =>
        \A i \in DOMAIN served.resp.data :
            served.resp.data[i].issue_type = JStr("Epic") => served.resp.data[i].parent = JNull

\* C3 witness: a flattened Epic whose upstream issue carries a parent key
C3_Witness ==
    /\ Flattened
    /\ \E i \in DOMAIN served.resp.data :
          /\ served.resp.data[i].issue_type = JStr("Epic")
          /\ Path3(UpstreamIssues(served.up)[i], "fields", "parent", "key") = JStr("PROJ-0")
          /\ served.resp.data[i].parent = JNull

\* The name the claim C4 expects for one person field of one upstream issue
ExpectedPerson(x, who) ==
    LET obj == Path2(x, "fields", who)
    IN  IF obj \in {Absent, JNull} \/ Path3(x, "fields", who, "displayName") = Absent
        THEN JStr("N/A")
        ELSE Path3(x, "fields", who, "displayName")

\* C4: in every flattened payload assignee and reporter are never null: each is
\* "N/A" when the upstream object is null, missing or lacks displayName, and
\* the upstream displayName otherwise.
C4_PersonNeverNull ==
    Flattened =>
        \A i \in DOMAIN served.resp.data :
            LET e == served.resp.data[i]
                x == UpstreamIssues(served.up)[i]
            IN  /\ e.assignee # JNull /\ e.reporter # JNull
                /\ e.assignee = ExpectedPerson(x, "assignee")
                /\ e.reporter = ExpectedPerson(x, "reporter")

\* C5: on success the list has as many entries as the upstream issues array
\* (none for "issues": [] or a missing key, without error) and the i-th entry
\* comes from the i-th issue.
C5_LengthAndOrder ==
    (JiraServed /\ ParsedObject(served.up)) =>
        LET xs == UpstreamIssues(served.up)
            r == served.resp
        IN  /\ ("issues" \notin DOMAIN served.up.data.m \/ served.up.data.m["issues"] = JList(<<>>))
                  => r = DataResponse(<<>>)
            /\ r.kind = "data" =>
                  /\ Len(r.data) = Len(xs)
                  /\ \A i \in DOMAIN r.data :
                        /\ r.data[i].issue_key = Get(xs[i], "key", JStr(""))
                        /\ Path3(xs[i], "fields", "issuetype", "name")
                               \in {Absent, r.data[i].issue_type}

\* C5 witness: two different issues flattened and not in key order
C5_Witness ==
    /\ Flattened /\ Len(served.resp.data) = 2
    /\ served.resp.data[1].issue_key = JStr("PROJ-4")
    /\ served.resp.data[2].issue_key = JStr("PROJ-1")

\* C6: a non-Epic entry has parent = the upstream fields.parent.key when it is
\* present, the absent marker when there is no fields.parent object, and the
\* string "N/A" when the fields.parent object lacks a key.
C6_ParentDefaults ==
    Flattened =>
        \A i \in DOMAIN served.resp.data :
            LET e == served.resp.data[i]
                x == UpstreamIssues(served.up)[i]
            IN  e.issue_type # JStr("Epic") =>
                    e.parent = (CASE Path3(x, "fields", "parent", "key") # Absent ->
                                        Path3(x, "fields", "parent", "key")
                                  [] Path2(x, "fields", "parent") = Absent -> JNull
                                  [] OTHER -> JStr("N/A"))

\* C6 amended: a non-Epic entry has parent = the upstream fields.parent.key
\* when it is present, and the absent marker both when there is no
\* fields.parent object and when that object lacks a key.
C6_ParentDefaultsAmended ==
    Flattened =>
        \A i \in DOMAIN served.resp.data :
            LET e == served.resp.data[i]
                x == UpstreamIssues(served.up)[i]
            IN  e.issue_type # JStr("Epic") =>
                    e.parent = (IF Path3(x, "fields", "parent", "key") # Absent
                                THEN Path3(x, "fields", "parent", "key")
                                ELSE JNull)

\* C6 witness: non-Epic entries for a parent object without key, for no parent
\* object and for a parent with a key, in one payload or another
C6_Witness ==
    /\ Flattened
    /\ \E i \in DOMAIN served.resp.data :
          /\ served.resp.data[i].issue_type # JStr("Epic")
          /\ IsDict(Path2(UpstreamIssues(served.up)[i], "fields", "parent"))
          /\ Path3(UpstreamIssues(served.up)[i], "fields", "parent", "key") = Absent
          /\ served.resp.data[i].parent = JNull
    /\ \E i \in DOMAIN served.resp.data :
          /\ served.resp.data[i].issue_type # JStr("Epic")
          /\ served.resp.data[i].parent = JStr("PROJ-0")

(***************************************************************************)
(* Properties of the Audit Reader.                                         *)
(***************************************************************************)
FullLogServed == served.ep = "full_log"

C8_StoreNeverWritten == [][store' = store]_vars

\* C8 witness: a 404 was served from a store that holds rows, and a session closed
C8_Witness ==
    /\ FullLogServed /\ served.resp.status = 404
    /\ requests # {} /\ classifications # <<>>
    /\ \E w \in Workers : pc[w] = "closed"

SetMin(S) == CHOOSE x \in S : \A y \in S : x <= y

\* C9: when several classification logs (or tickets) share the request_id,
\* getFullLog returns the matching row with the lowest primary key.
C9_LowestPrimaryKeyPicked ==
    (FullLogServed /\ served.resp.status = 200) =>
        /\ Matching(classifications, served.request_id) # {} =>
              served.resp.classification = SetMin(Matching(classifications, served.request_id))
        /\ Matching(tickets, served.request_id) # {} =>
              served.resp.ticket = SetMin(Matching(tickets, served.request_id))

SessionOpen(w) == pc[w] \in {"open", "returned", "raised"}

\* C10: every session acquired for a request is eventually closed, and closed
\* exactly once, whether the handler returned, raised the 404 or raised any
\* other exception, whatever the other workers do.
C10_SessionReleasedOnce ==
    /\ [](\A w \in Workers : /\ closes[w] <= 1
                             /\ SessionOpen(w) => closes[w] = 0
                             /\ pc[w] = "closed" => closes[w] = 1)
    /\ \A w \in Workers : SessionOpen(w) ~> (pc[w] = "closed" /\ closes[w] = 1)

\* C10 witness: the only request so far ended in the 404 and its session is closed
C10_Witness ==
    /\ FullLogServed /\ served.resp.status = 404
    /\ \E w \in Workers :
          /\ pc[w] = "closed" /\ closes[w] = 1
          /\ \A v \in Workers \ {w} : pc[v] = "none"

====
